---- MODULE Spec2Model ----
(***************************************************************************)
(* Model of the tiling layout core (src/src/core.rs): Region edge setters, *)
(* Workspace::new, create_region, shared_edge_regions, adjacent_regions,   *)
(* major_adjacent_region, resize_region and swap_region.                   *)
(*                                                                         *)
(* create_region, resize_region and swap_region take `&mut self` together  *)
(* with a `&mut Region`.  The borrow rules make that argument a Region     *)
(* value owned by the caller, distinct from every element of               *)
(* `self.regions`; it is the variable `region` below.  Indices are 0-based *)
(* as in the source; Get converts to the 1-based TLA+ sequence.  Sizes are *)
(* u64 and coordinates i64 in the source; within the bounds below every    *)
(* value stays between -2^10 and 2^10, so no cast or sum wraps.            *)
(***************************************************************************)
EXTENDS Integers, Sequences, FiniteSets, TLC

VARIABLES
    workspace,  \* the Workspace: [size, regions]
    region,     \* the caller's Region value passed as `&mut Region`
    last,       \* the last call: its inputs, its result, the state before it
    before,     \* the call before the last one
    clean,      \* TRUE while every call so far has succeeded
    budget      \* number of calls the caller may still make

vars == <<workspace, region, last, before, clean, budget>>

\* ---- bounds of the model ------------------------------------------------
\* Calls per run: of a caller that splits, moves single edges and swaps; of
\* one that only splits and swaps; of one that splits and resizes by corners;
\* of one that also builds Region values of its own.
MaxSteps == 4
MaxSwapSteps == 5
MaxCornerSteps == 3
MaxPlaceSteps == 4
MaxRegions == 3

\* Workspace sizes given to Workspace::new: one that splits into tiles of the
\* minimum size and one more unit (41 = 21 + 20, 40 = 20 + 20), a large one,
\* and two with a side of 2, whose halves and quarters are 1 and 0 wide.
Sizes == { <<41, 40>>, <<200, 200>> }
SmallSizes == { <<2, 40>>, <<41, 2>> }

\* Signed deltas given to resize_region and, relative to the current edge,
\* the coordinates given to the set_* methods.
Deltas == { -1, 1 }
EdgeOffsets == { -1, 0, 1 }

\* The workspace of the caller that builds Region values of its own.
PlaceSizes == { <<41, 40>> }
\* <<x, y, w, h>> of the Region values that caller builds, around the 41 x 40
\* workspace: right of its right edge, its left 22 columns, the same columns
\* one row short at the top and at the bottom, and a band above its top edge.
Places == { <<41, 0, 21, 40>>, <<0, 0, 22, 40>>, <<0, 1, 22, 38>>, <<0, -20, 41, 21>> }

\* ---- values ---------------------------------------------------------------
Rectangle_new(width, height) == [w |-> width, h |-> height]

Position_new(x, y) == [x |-> x, y |-> y]

Region_new(size, pos, float) == [size |-> size, pos |-> pos, float |-> float]

MIN_REGION_SIZE == Rectangle_new(20, 20)

Direction == {"Up", "Down", "Left", "Right"}

ResizeSingle == {"Top", "Bottom", "Left", "Right"}
ResizeCompound == {"TopLeft", "TopRight", "BottomLeft", "BottomRight"}

\* A Resize value: its variant and its one or two deltas (b is 0 when unused).
Resize(kind, a, b) == [kind |-> kind, a |-> a, b |-> b]

Ok == "Ok"
InvalidRegion == "InvalidRegion"
NoAdjacentRegions == "NoAdjacentRegions"

\* Option<usize>
None == [some |-> FALSE, index |-> 0]
Some(index) == [some |-> TRUE, index |-> index]

\* ---- Region ---------------------------------------------------------------
area(self) == self.size.w * self.size.h

top(self) == self.pos.y

bottom(self) == self.pos.y + self.size.h

left(self) == self.pos.x

right(self) == self.pos.x + self.size.w

\* set_top with a fault: the height is recomputed but the position is not
\* moved.
set_top_keeps_pos(self, new) ==
    IF new > bottom(self) - MIN_REGION_SIZE.h
    THEN [err |-> InvalidRegion, region |-> self]
    ELSE [err |-> Ok, region |-> [self EXCEPT !.size.h = bottom(self) - new]]

\* The setters return Result<&mut Self>: err is Ok or InvalidRegion, region is
\* the receiver after the call.
set_top(self, new) ==
    IF new > bottom(self) - MIN_REGION_SIZE.h
    THEN [err |-> InvalidRegion, region |-> self]
    ELSE [err |-> Ok,
          region |-> [self EXCEPT !.size.h = bottom(self) - new, !.pos.y = new]]

set_bottom(self, new) ==
    IF new < top(self) + MIN_REGION_SIZE.h
    THEN [err |-> InvalidRegion, region |-> self]
    ELSE [err |-> Ok, region |-> [self EXCEPT !.size.h = new - top(self)]]

set_left(self, new) ==
    IF new > right(self) - MIN_REGION_SIZE.w
    THEN [err |-> InvalidRegion, region |-> self]
    ELSE [err |-> Ok,
          region |-> [self EXCEPT !.size.w = right(self) - new, !.pos.x = new]]

set_right(self, new) ==
    IF new < left(self) + MIN_REGION_SIZE.w
    THEN [err |-> InvalidRegion, region |-> self]
    ELSE [err |-> Ok, region |-> [self EXCEPT !.size.w = new - left(self)]]

\* ---- Workspace ------------------------------------------------------------
Workspace_new(size) ==
    [size |-> size, regions |-> << Region_new(size, Position_new(0, 0), FALSE) >>]

\* self.regions.get(index).unwrap()
Get(self, index) == self.regions[index + 1]

\* The indices of self.regions in iteration order.
Indices(self) == [i \in 1..Len(self.regions) |-> i - 1]

\* region.size.h /= 2 (and .w): the split dimension of the new region.
RegionHalf(d) == d \div 2

\* SiblingHalf with a fault: the remainder of an odd dimension is dropped.
SiblingHalfNoRemainder(d) == d \div 2

\* sibling.size.h = sibling.size.h / 2 + sibling.size.h % 2 (and .w).
SiblingHalf(d) == (d \div 2) + (d % 2)

\* create_region with a fault: the new region is stored in front of the
\* regions already there.
create_region_at_front(self, sibling, direction) ==
    LET halfH == RegionHalf(sibling.size.h)
        halfW == RegionHalf(sibling.size.w)
        restH == SiblingHalf(sibling.size.h)
        restW == SiblingHalf(sibling.size.w)
        new == CASE direction = "Up" ->
                      [sibling EXCEPT !.size.h = halfH]
                 [] direction = "Down" ->
                      [sibling EXCEPT !.size.h = halfH,
                                      !.pos.y = sibling.pos.y + restH]
                 [] direction = "Left" ->
                      [sibling EXCEPT !.size.w = halfW]
                 [] direction = "Right" ->
                      [sibling EXCEPT !.size.w = halfW,
                                      !.pos.x = sibling.pos.x + restW]
        sib == CASE direction = "Up" ->
                      [sibling EXCEPT !.size.h = restH,
                                      !.pos.y = sibling.pos.y + halfH]
                 [] direction = "Down" ->
                      [sibling EXCEPT !.size.h = restH]
                 [] direction = "Left" ->
                      [sibling EXCEPT !.size.w = restW,
                                      !.pos.x = sibling.pos.x + halfW]
                 [] direction = "Right" ->
                      [sibling EXCEPT !.size.w = restW]
        regions == << new >> \o self.regions
    IN  [workspace |-> [self EXCEPT !.regions = regions],
         sibling |-> sib,
         index |-> Len(regions) - 1]

\* Returns the workspace after the call, the sibling after the call and the
\* returned index.
create_region(self, sibling, direction) ==
    LET halfH == RegionHalf(sibling.size.h)
        halfW == RegionHalf(sibling.size.w)
        restH == SiblingHalf(sibling.size.h)
        restW == SiblingHalf(sibling.size.w)
        new == CASE direction = "Up" ->
                      [sibling EXCEPT !.size.h = halfH]
                 [] direction = "Down" ->
                      [sibling EXCEPT !.size.h = halfH,
                                      !.pos.y = sibling.pos.y + restH]
                 [] direction = "Left" ->
                      [sibling EXCEPT !.size.w = halfW]
                 [] direction = "Right" ->
                      [sibling EXCEPT !.size.w = halfW,
                                      !.pos.x = sibling.pos.x + restW]
        sib == CASE direction = "Up" ->
                      [sibling EXCEPT !.size.h = restH,
                                      !.pos.y = sibling.pos.y + halfH]
                 [] direction = "Down" ->
                      [sibling EXCEPT !.size.h = restH]
                 [] direction = "Left" ->
                      [sibling EXCEPT !.size.w = restW,
                                      !.pos.x = sibling.pos.x + halfW]
                 [] direction = "Right" ->
                      [sibling EXCEPT !.size.w = restW]
        regions == Append(self.regions, new)
    IN  [workspace |-> [self EXCEPT !.regions = regions],
         sibling |-> sib,
         index |-> Len(regions) - 1]

\* SharesEdge with a fault: the two edges are at distance 0, not 1.
SharesEdgeTouching(reg, sibling, direction) ==
    CASE direction = "Up" -> top(reg) - bottom(sibling) = 0
      [] direction = "Down" -> bottom(reg) - top(sibling) = 0
      [] direction = "Left" -> left(reg) - right(sibling) = 0
      [] direction = "Right" -> right(reg) - left(sibling) = 0

SharesEdge(reg, sibling, direction) ==
    CASE direction = "Up" -> top(reg) - bottom(sibling) = 1
      [] direction = "Down" -> bottom(reg) - top(sibling) = 1
      [] direction = "Left" -> left(reg) - right(sibling) = 1
      [] direction = "Right" -> right(reg) - left(sibling) = 1

shared_edge_regions(self, reg, direction) ==
    SelectSeq(Indices(self),
              LAMBDA index : SharesEdge(reg, Get(self, index), direction))

SpansOverlap(reg, sibling, direction) ==
    IF direction \in {"Up", "Down"}
    THEN \/ (left(sibling) >= left(reg) /\ left(sibling) <= right(reg))
         \/ (right(sibling) <= right(reg) /\ right(sibling) >= left(reg))
    ELSE \/ (top(sibling) >= top(reg) /\ top(sibling) <= bottom(reg))
         \/ (bottom(sibling) <= bottom(reg) /\ bottom(sibling) >= top(reg))

adjacent_regions(self, reg, direction) ==
    SelectSeq(shared_edge_regions(self, reg, direction),
              LAMBDA index : SpansOverlap(reg, Get(self, index), direction))

Abs(n) == IF n < 0 THEN -n ELSE n
Max(a, b) == IF a >= b THEN a ELSE b
Min(a, b) == IF a <= b THEN a ELSE b

\* The key major_adjacent_region maps each adjacent index to.
OverlapLength(reg, sibling, direction) ==
    IF direction \in {"Up", "Down"}
    THEN Abs(Max(left(sibling), left(reg)) - Min(right(sibling), right(reg)))
    ELSE Abs(Max(top(sibling), top(reg)) - Min(bottom(sibling), bottom(reg)))

\* MaxByKey with a fault: the element with the smallest key is returned.
RECURSIVE MinByKey(_, _, _, _, _)
MinByKey(self, reg, direction, indices, best) ==
    IF indices = << >> THEN best
    ELSE LET index == Head(indices)
             key == OverlapLength(reg, Get(self, index), direction)
             keep == /\ best.some
                     /\ OverlapLength(reg, Get(self, best.index), direction) < key
         IN  MinByKey(self, reg, direction, Tail(indices),
                      IF keep THEN best ELSE Some(index))

\* MaxByKey with a fault: of several maximal elements the first is returned.
RECURSIVE MaxByKeyFirst(_, _, _, _, _)
MaxByKeyFirst(self, reg, direction, indices, best) ==
    IF indices = << >> THEN best
    ELSE LET index == Head(indices)
             key == OverlapLength(reg, Get(self, index), direction)
             keep == /\ best.some
                     /\ OverlapLength(reg, Get(self, best.index), direction) >= key
         IN  MaxByKeyFirst(self, reg, direction, Tail(indices),
                           IF keep THEN best ELSE Some(index))

\* Iterator::max_by_key: of several maximal elements the last is returned.
RECURSIVE MaxByKey(_, _, _, _, _)
MaxByKey(self, reg, direction, indices, best) ==
    IF indices = << >> THEN best
    ELSE LET index == Head(indices)
             key == OverlapLength(reg, Get(self, index), direction)
             keep == /\ best.some
                     /\ OverlapLength(reg, Get(self, best.index), direction) > key
         IN  MaxByKey(self, reg, direction, Tail(indices),
                      IF keep THEN best ELSE Some(index))

major_adjacent_region(self, reg, direction) ==
    MaxByKey(self, reg, direction, adjacent_regions(self, reg, direction), None)

\* MoveOpposingEdge with a fault: the neighbour's edge is moved by delta, the
\* way the region's own edge moves.
MoveOpposingEdgeSameWay(sibling, kind, delta) ==
    CASE kind = "Top" -> set_bottom(sibling, bottom(sibling) + delta)
      [] kind = "Bottom" -> set_top(sibling, top(sibling) + delta)
      [] kind = "Left" -> set_right(sibling, right(sibling) + delta)
      [] kind = "Right" -> set_left(sibling, left(sibling) + delta)

\* The `for index in adjacent_regions(..)` loop of a single-edge resize: the
\* opposing edge of each listed region is moved in turn; `?` returns at the
\* first InvalidRegion and keeps the moves already made.
MoveOpposingEdge(sibling, kind, delta) ==
    CASE kind = "Top" -> set_bottom(sibling, bottom(sibling) - delta)
      [] kind = "Bottom" -> set_top(sibling, top(sibling) - delta)
      [] kind = "Left" -> set_right(sibling, right(sibling) - delta)
      [] kind = "Right" -> set_left(sibling, left(sibling) - delta)

RECURSIVE Cascade(_, _, _, _)
Cascade(self, indices, kind, delta) ==
    IF indices = << >> THEN [err |-> Ok, workspace |-> self]
    ELSE LET index == Head(indices)
             r == MoveOpposingEdge(Get(self, index), kind, delta)
         IN  IF r.err # Ok
             THEN [err |-> r.err, workspace |-> self]
             ELSE Cascade([self EXCEPT !.regions[index + 1] = r.region],
                          Tail(indices), kind, delta)

MoveOwnEdge(reg, kind, delta) ==
    CASE kind = "Top" -> set_top(reg, top(reg) + delta)
      [] kind = "Bottom" -> set_bottom(reg, bottom(reg) + delta)
      [] kind = "Left" -> set_left(reg, left(reg) + delta)
      [] kind = "Right" -> set_right(reg, right(reg) + delta)

EdgeDirection(kind) ==
    CASE kind = "Top" -> "Up"
      [] kind = "Bottom" -> "Down"
      [] kind = "Left" -> "Left"
      [] kind = "Right" -> "Right"

\* resize_single with a fault: the neighbours are looked up before the
\* region's own edge is moved.
resize_single_neighbours_first(self, reg, kind, delta) ==
    LET own == MoveOwnEdge(reg, kind, delta)
    IN  IF own.err # Ok
        THEN [err |-> own.err, workspace |-> self, region |-> reg]
        ELSE LET c == Cascade(self,
                              adjacent_regions(self, reg, EdgeDirection(kind)),
                              kind, delta)
             IN  [err |-> c.err, workspace |-> c.workspace, region |-> own.region]

\* resize_single with a fault: when a neighbour's move fails, the moves made
\* so far are undone.
resize_single_rolls_back(self, reg, kind, delta) ==
    LET own == MoveOwnEdge(reg, kind, delta)
    IN  IF own.err # Ok
        THEN [err |-> own.err, workspace |-> self, region |-> reg]
        ELSE LET c == Cascade(self,
                              adjacent_regions(self, own.region, EdgeDirection(kind)),
                              kind, delta)
             IN  IF c.err # Ok
                 THEN [err |-> c.err, workspace |-> self, region |-> reg]
                 ELSE [err |-> c.err, workspace |-> c.workspace,
                       region |-> own.region]

\* The arms Resize::Top, Bottom, Left and Right of resize_region.
resize_single(self, reg, kind, delta) ==
    LET own == MoveOwnEdge(reg, kind, delta)
    IN  IF own.err # Ok
        THEN [err |-> own.err, workspace |-> self, region |-> reg]
        ELSE LET c == Cascade(self,
                              adjacent_regions(self, own.region, EdgeDirection(kind)),
                              kind, delta)
             IN  [err |-> c.err, workspace |-> c.workspace, region |-> own.region]

FirstComponent(kind) == IF kind \in {"TopLeft", "TopRight"} THEN "Top" ELSE "Bottom"
SecondComponent(kind) == IF kind \in {"TopLeft", "BottomLeft"} THEN "Left" ELSE "Right"

\* resize_region with a fault: the second component of a corner variant is
\* applied even when the first has failed.
resize_region_keeps_going(self, reg, resize) ==
    IF resize.kind \in ResizeSingle
    THEN resize_single(self, reg, resize.kind, resize.a)
    ELSE LET first == resize_single(self, reg, FirstComponent(resize.kind), resize.a)
         IN  resize_single(first.workspace, first.region,
                           SecondComponent(resize.kind), resize.b)

\* Returns the result, the workspace after the call and the region after it.
resize_region(self, reg, resize) ==
    IF resize.kind \in ResizeSingle
    THEN resize_single(self, reg, resize.kind, resize.a)
    ELSE LET first == resize_single(self, reg, FirstComponent(resize.kind), resize.a)
         IN  IF first.err # Ok
             THEN first
             ELSE resize_single(first.workspace, first.region,
                                SecondComponent(resize.kind), resize.b)

\* swap_region with a fault: the neighbour is overwritten with the region's
\* size and position, and the region keeps its own.
swap_region_overwrites(self, reg, direction) ==
    LET found == major_adjacent_region(self, reg, direction)
    IN  IF ~found.some
        THEN [err |-> NoAdjacentRegions, workspace |-> self, region |-> reg,
              index |-> found]
        ELSE [err |-> Ok,
              workspace |-> [self EXCEPT
                  !.regions[found.index + 1].size = reg.size,
                  !.regions[found.index + 1].pos = reg.pos],
              region |-> reg,
              index |-> found]

\* swap_region with a fault: without an adjacent region the call reports
\* success.
swap_region_ignores_none(self, reg, direction) ==
    LET found == major_adjacent_region(self, reg, direction)
    IN  IF ~found.some
        THEN [err |-> Ok, workspace |-> self, region |-> reg, index |-> found]
        ELSE [err |-> Ok,
              workspace |-> [self EXCEPT
                  !.regions[found.index + 1].size = reg.size,
                  !.regions[found.index + 1].pos = reg.pos],
              region |-> [reg EXCEPT !.size = self.regions[found.index + 1].size,
                                     !.pos = self.regions[found.index + 1].pos],
              index |-> found]

\* Returns the result, the workspace after the call, the region after it and
\* the index major_adjacent_region selected.
swap_region(self, reg, direction) ==
    LET found == major_adjacent_region(self, reg, direction)
    IN  IF ~found.some
        THEN [err |-> NoAdjacentRegions, workspace |-> self, region |-> reg,
              index |-> None]
        ELSE LET sibling == Get(self, found.index)
             IN  [err |-> Ok,
                  workspace |-> [self EXCEPT
                      !.regions[found.index + 1] =
                          [sibling EXCEPT !.size = reg.size, !.pos = reg.pos]],
                  region |-> [reg EXCEPT !.size = sibling.size, !.pos = sibling.pos],
                  index |-> found]

\* ---- the state machine ------------------------------------------------------
NoResize == Resize("None", 0, 0)

Call(op, direction, resize, new, err, index) ==
    [op |-> op, direction |-> direction, resize |-> resize, new |-> new,
     err |-> err, index |-> index, workspace |-> workspace, region |-> region]

\* let mut workspace = Workspace::new(size); the caller's first Region value
\* has the geometry of the only region there is and a float marker of the
\* caller's choice (Region::new).
Start(sizes, calls) ==
    /\ \E size \in sizes :
          workspace = Workspace_new(Rectangle_new(size[1], size[2]))
    /\ \E float \in BOOLEAN :
          region = Region_new(workspace.size, Position_new(0, 0), float)
    /\ last = [op |-> "new", direction |-> "None", resize |-> NoResize, new |-> 0,
               err |-> Ok, index |-> None, workspace |-> workspace,
               region |-> region]
    /\ before = last
    /\ clean = TRUE
    /\ budget = calls

Init == Start(Sizes, MaxSteps)

\* The caller makes a call only while it has budget left.
CanCall == budget > 0

\* Every call uses up one unit of the budget and becomes the last call.
Record(call) ==
    /\ budget' = budget - 1
    /\ clean' = (clean /\ call.err = Ok)
    /\ before' = last
    /\ last' = call

\* let mut region = workspace.regions[index]; Region is Copy, so the caller's
\* value is a copy of the stored region.
TakeRegion(index) ==
    /\ CanCall
    /\ index \in 0..(Len(workspace.regions) - 1)
    /\ region' = Get(workspace, index)
    /\ UNCHANGED workspace
    /\ Record(Call("take", "None", NoResize, 0, Ok, Some(index)))

CreateRegion(direction) ==
    /\ CanCall
    /\ Len(workspace.regions) < MaxRegions
    /\ LET r == create_region(workspace, region, direction)
       IN  /\ workspace' = r.workspace
           /\ region' = r.sibling
           /\ Record(Call("create_region", direction, NoResize, 0, Ok,
                          Some(r.index)))

ResizeRegion(resize) ==
    /\ CanCall
    /\ LET r == resize_region(workspace, region, resize)
       IN  /\ workspace' = r.workspace
           /\ region' = r.region
           /\ Record(Call("resize_region", "None", resize, 0, r.err, None))

SwapRegion(direction) ==
    /\ CanCall
    /\ LET r == swap_region(workspace, region, direction)
       IN  /\ workspace' = r.workspace
           /\ region' = r.region
           /\ Record(Call("swap_region", direction, NoResize, 0, r.err, r.index))

\* A direct call of one of the four setters on the caller's Region.
SetEdge(op, new) ==
    /\ CanCall
    /\ LET r == CASE op = "set_top" -> set_top(region, new)
                  [] op = "set_bottom" -> set_bottom(region, new)
                  [] op = "set_left" -> set_left(region, new)
                  [] op = "set_right" -> set_right(region, new)
       IN  /\ region' = r.region
           /\ UNCHANGED workspace
           /\ Record(Call(op, "None", NoResize, new, r.err, None))

Take == \E index \in 0..(MaxRegions - 1) : TakeRegion(index)
Create == \E direction \in Direction : CreateRegion(direction)
ResizeOne == \E kind \in ResizeSingle, a \in Deltas : ResizeRegion(Resize(kind, a, 0))
ResizeTwo ==
    \E kind \in ResizeCompound, a \in Deltas, b \in Deltas :
        ResizeRegion(Resize(kind, a, b))
Swap == \E direction \in Direction : SwapRegion(direction)
SetTop == \E d \in EdgeOffsets : SetEdge("set_top", top(region) + d)
SetBottom == \E d \in EdgeOffsets : SetEdge("set_bottom", bottom(region) + d)
SetLeft == \E d \in EdgeOffsets : SetEdge("set_left", left(region) + d)
SetRight == \E d \in EdgeOffsets : SetEdge("set_right", right(region) + d)

\* A caller that splits, moves single edges with resize_region and swaps.
Next ==
    \/ Take
    \/ Create
    \/ ResizeOne
    \/ Swap

Spec == Init /\ [][Next]_vars

\* A caller that splits and resizes by the corner variants.
NextCorner ==
    \/ Take
    \/ Create
    \/ ResizeTwo

InitCorner == Start(Sizes, MaxCornerSteps)

SpecCorner == InitCorner /\ [][NextCorner]_vars

\* A caller that only splits and swaps, in workspaces with a side of 2.
InitSwap == Start(SmallSizes, MaxSwapSteps)

NextSwap ==
    \/ Take
    \/ Create
    \/ Swap

SpecSwap == InitSwap /\ [][NextSwap]_vars

\* A caller that splits and moves single edges of its Region.
NextEdges ==
    \/ Take
    \/ Create
    \/ SetTop
    \/ SetBottom
    \/ SetLeft
    \/ SetRight

SpecEdges == Init /\ [][NextEdges]_vars

\* let mut region = Region::new(size, pos, false): the caller builds a Region
\* value of its own instead of copying a stored one.
PlaceRegion(place) ==
    /\ CanCall
    /\ region' = Region_new(Rectangle_new(place[3], place[4]),
                            Position_new(place[1], place[2]), FALSE)
    /\ UNCHANGED workspace
    /\ Record(Call("region_new", "None", NoResize, 0, Ok, None))

Place == \E place \in Places : PlaceRegion(place)

\* A caller that splits, moves single edges with resize_region and also passes
\* Region values it built itself.
InitPlace == Start(PlaceSizes, MaxPlaceSteps)

NextPlace ==
    \/ Take
    \/ Create
    \/ Place
    \/ ResizeOne

SpecPlace == InitPlace /\ [][NextPlace]_vars

\* ---- vocabulary of the properties ----------------------------------------------
\* The rectangle of a region: its size and position, without the float marker.
Geometry(reg) == [size |-> reg.size, pos |-> reg.pos]

\* The unit cell with top-left corner (x, y) lies in the region.
Contains(reg, x, y) ==
    /\ left(reg) <= x /\ x < right(reg)
    /\ top(reg) <= y /\ y < bottom(reg)

\* Some unit cell lies in both regions.
Overlap(a, b) ==
    /\ Max(left(a), left(b)) < Min(right(a), right(b))
    /\ Max(top(a), top(b)) < Min(bottom(a), bottom(b))

\* Every unit cell of the workspace rectangle lies in some stored region.
Covered(self) ==
    \A x \in 0..(self.size.w - 1), y \in 0..(self.size.h - 1) :
        \E i \in 1..Len(self.regions) : Contains(self.regions[i], x, y)

\* No stored region reaches outside the workspace rectangle.
Within(self) ==
    \A i \in 1..Len(self.regions) :
        /\ left(self.regions[i]) >= 0 /\ right(self.regions[i]) <= self.size.w
        /\ top(self.regions[i]) >= 0 /\ bottom(self.regions[i]) <= self.size.h

Disjoint(self) ==
    \A i, j \in 1..Len(self.regions) :
        i < j => ~Overlap(self.regions[i], self.regions[j])

Tiling(self) == Covered(self) /\ Within(self) /\ Disjoint(self)

\* The stored indices whose geometry the caller's Region value was copied from.
CopiedFrom(self, reg) ==
    { index \in 0..(Len(self.regions) - 1) : Geometry(Get(self, index)) = Geometry(reg) }

\* ---- C1 -----------------------------------------------------------------------
\* C1: after any sequence of successful create_region, resize_region and
\* swap_region calls the stored regions cover the workspace rectangle exactly
\* and no two of them overlap.
C1_TilingInvariant == clean => Tiling(workspace)

\* ---- C2 -----------------------------------------------------------------------
\* The stored regions that start at the right edge of reg and share part of its
\* vertical extent.
RightNeighbours(self, reg) ==
    { index \in 0..(Len(self.regions) - 1) :
        /\ left(Get(self, index)) = right(reg)
        /\ Max(top(Get(self, index)), top(reg))
              < Min(bottom(Get(self, index)), bottom(reg)) }

\* B is the only right-neighbour of A and fills the space directly right of A,
\* as after create_region(A, Right).
SoleRightNeighbour(self, reg, index) ==
    /\ RightNeighbours(self, reg) = {index}
    /\ top(Get(self, index)) = top(reg)
    /\ bottom(Get(self, index)) = bottom(reg)

\* C2: a successful resize_region(A, Right(d)), where B is the sole
\* right-neighbour of A, widens A by d, narrows B by d, moves the left edge of B
\* right by d and keeps the right edge of B, so A and B still meet edge to edge.
C2_ResizeCascade ==
    (last.op = "resize_region" /\ last.resize.kind = "Right" /\ last.err = Ok) =>
        \A index \in 0..(Len(last.workspace.regions) - 1) :
            SoleRightNeighbour(last.workspace, last.region, index) =>
                LET d == last.resize.a
                    A == last.region
                    B == Get(last.workspace, index)
                    B2 == Get(workspace, index)
                IN  /\ region.size.w = A.size.w + d
                    /\ B2.size.w = B.size.w - d
                    /\ left(B2) = left(B) + d
                    /\ right(B2) = right(B)
                    /\ right(region) = left(B2)

\* ---- C3 -----------------------------------------------------------------------
\* C3: create_region gives the new region floor(d/2) of the split dimension d
\* and the sibling d - floor(d/2); the other dimension is unchanged in both.
\* For Up (Left) the new region keeps the sibling's old top (left) and the
\* sibling's top (left) moves down (right) by the new region's size; for Down
\* (Right) the sibling stays and the new region starts at the sibling's new
\* bottom (right) edge.
C3_SplitCorrectness ==
    last.op = "create_region" =>
        LET old == last.region
            sib == region
            new == Get(workspace, last.index.index)
        IN  IF last.direction \in {"Up", "Down"}
            THEN /\ new.size.h = old.size.h \div 2
                 /\ sib.size.h = old.size.h - (old.size.h \div 2)
                 /\ new.size.h + sib.size.h = old.size.h
                 /\ sib.size.h >= new.size.h
                 /\ new.size.w = old.size.w /\ sib.size.w = old.size.w
                 /\ left(new) = left(old) /\ left(sib) = left(old)
                 /\ IF last.direction = "Up"
                    THEN top(new) = top(old) /\ top(sib) = top(old) + new.size.h
                    ELSE top(sib) = top(old) /\ top(new) = bottom(sib)
            ELSE /\ new.size.w = old.size.w \div 2
                 /\ sib.size.w = old.size.w - (old.size.w \div 2)
                 /\ new.size.w + sib.size.w = old.size.w
                 /\ sib.size.w >= new.size.w
                 /\ new.size.h = old.size.h /\ sib.size.h = old.size.h
                 /\ top(new) = top(old) /\ top(sib) = top(old)
                 /\ IF last.direction = "Left"
                    THEN left(new) = left(old) /\ left(sib) = left(old) + new.size.w
                    ELSE left(sib) = left(old) /\ left(new) = right(sib)

\* An odd width has been split to the left: the sibling kept the larger half
\* and moved right.
C3_Witness ==
    /\ last.op = "create_region"
    /\ last.direction = "Left"
    /\ last.region.size.w % 2 = 1
    /\ region.size.w = Get(workspace, last.index.index).size.w + 1
    /\ left(region) > left(last.region)

\* ---- C4 -----------------------------------------------------------------------
\* C4: after create_region is applied to the region at index i, entry i of the
\* sequence holds the shrunk geometry, the entry at the returned index holds
\* the new region, and the two partition the rectangle entry i had before;
\* Workspace::new(200x200) and a Right split of region 0 leave
\* regions[0] = (0,0) 100x200 and regions[1] = (100,0) 100x200.
C4_StoredSplit ==
    last.op = "create_region" =>
        /\ \A i \in CopiedFrom(last.workspace, last.region) :
              LET old == Get(last.workspace, i)
                  shrunk == Get(workspace, i)
                  new == Get(workspace, last.index.index)
              IN  /\ Geometry(shrunk) = Geometry(region)
                  /\ ~Overlap(shrunk, new)
                  /\ area(shrunk) + area(new) = area(old)
        /\ ( /\ last.workspace = Workspace_new(Rectangle_new(200, 200))
             /\ Geometry(last.region) = Geometry(Get(last.workspace, 0))
             /\ last.direction = "Right" ) =>
              /\ Geometry(Get(workspace, 0))
                    = [size |-> Rectangle_new(100, 200), pos |-> Position_new(0, 0)]
              /\ Geometry(Get(workspace, 1))
                    = [size |-> Rectangle_new(100, 200), pos |-> Position_new(100, 0)]

\* ---- C5 -----------------------------------------------------------------------
\* C5: set_top(new) fails with InvalidRegion exactly when new > bottom - 20,
\* set_bottom(new) exactly when new < top + 20, set_left(new) exactly when
\* new > right - 20, set_right(new) exactly when new < left + 20; on failure
\* size, position and float marker are unchanged; on success only the named
\* edge moves.
C5_SetterMinimumSize ==
    last.op \in {"set_top", "set_bottom", "set_left", "set_right"} =>
        LET old == last.region
            new == last.new
            fails == CASE last.op = "set_top" -> new > bottom(old) - 20
                       [] last.op = "set_bottom" -> new < top(old) + 20
                       [] last.op = "set_left" -> new > right(old) - 20
                       [] last.op = "set_right" -> new < left(old) + 20
        IN  /\ last.err \in {Ok, InvalidRegion}
            /\ (last.err = InvalidRegion) <=> fails
            /\ last.err = InvalidRegion => region = old
            /\ last.err = Ok =>
                  /\ region.float = old.float
                  /\ top(region) = (IF last.op = "set_top" THEN new ELSE top(old))
                  /\ bottom(region)
                        = (IF last.op = "set_bottom" THEN new ELSE bottom(old))
                  /\ left(region) = (IF last.op = "set_left" THEN new ELSE left(old))
                  /\ right(region)
                        = (IF last.op = "set_right" THEN new ELSE right(old))

\* set_left has moved the left edge to exactly right - 20, and set_right one
\* unit short of left + 20 has then been refused.
C5_Witness ==
    /\ before.op = "set_left" /\ before.err = Ok
    /\ before.new = right(before.region) - 20
    /\ left(last.region) # left(before.region)
    /\ last.op = "set_right" /\ last.err = InvalidRegion
    /\ last.new = left(last.region) + 19

\* ---- C6 -----------------------------------------------------------------------
AtLeastMinimum(reg) ==
    reg.size.w >= MIN_REGION_SIZE.w /\ reg.size.h >= MIN_REGION_SIZE.h

\* C6: in a workspace created at least 20 wide and 20 high, after any sequence
\* of successful create_region, resize_region and swap_region calls every
\* region, a newly split-off one and its sibling included, is at least 20 wide
\* and 20 high.
C6_MinimumTileSize ==
    (clean /\ workspace.size.w >= 20 /\ workspace.size.h >= 20) =>
        /\ \A i \in 1..Len(workspace.regions) : AtLeastMinimum(workspace.regions[i])
        /\ AtLeastMinimum(region)

\* ---- C7 -----------------------------------------------------------------------
\* index is one of the indices in the sequence.
Among(index, indices) == \E k \in 1..Len(indices) : indices[k] = index

\* C7: for any two stored regions A and B, B is in adjacent_regions(A, Right)
\* iff A is in adjacent_regions(B, Left), and B is in adjacent_regions(A, Down)
\* iff A is in adjacent_regions(B, Up).
C7_AdjacencySymmetry ==
    \A a, b \in 0..(Len(workspace.regions) - 1) :
        a # b =>
            LET A == Get(workspace, a)
                B == Get(workspace, b)
            IN  /\ Among(b, adjacent_regions(workspace, A, "Right"))
                      <=> Among(a, adjacent_regions(workspace, B, "Left"))
                /\ Among(b, adjacent_regions(workspace, A, "Down"))
                      <=> Among(a, adjacent_regions(workspace, B, "Up"))

\* ---- C8 -----------------------------------------------------------------------
\* The last two calls were swap_region on the same Region value in the same
\* direction, and the first one succeeded.
TwoSwaps ==
    /\ before.op = "swap_region" /\ before.err = Ok
    /\ last.op = "swap_region" /\ last.direction = before.direction

\* After the second swap the region and the neighbour of the first swap have
\* the size and position they had before the first swap.
Restored ==
    /\ Geometry(region) = Geometry(before.region)
    /\ Geometry(Get(workspace, before.index.index))
          = Geometry(Get(before.workspace, before.index.index))

\* C8 as stated: two successive swap_region(A, direction) calls select the
\* same neighbour B, and after them A and B have the size and position they
\* had before the first.
C8_SwapRoundTripAlways ==
    TwoSwaps => (last.err = Ok /\ last.index = before.index /\ Restored)

\* C8 as amended: if two successive swap_region(A, direction) calls both
\* succeed and both exchange with the same neighbour B, then afterwards A and
\* B have the size and position they had before the first.
C8_SwapRoundTrip ==
    (TwoSwaps /\ last.err = Ok /\ last.index = before.index) => Restored

\* Two successive swaps have exchanged with the same neighbour, whose size
\* differs from the region's, so the first swap changed both.
C8_Witness ==
    /\ TwoSwaps /\ last.err = Ok /\ last.index = before.index
    /\ before.region.size # Get(before.workspace, before.index.index).size
    /\ Geometry(last.region) # Geometry(before.region)

\* ---- C9 -----------------------------------------------------------------------
\* C9: swap_region returns NoAdjacentRegions exactly when
\* major_adjacent_region(region, direction) is empty, and then neither the
\* region nor any stored region changes; it returns no other error.
C9_SwapNoAdjacent ==
    last.op = "swap_region" =>
        /\ last.err \in {Ok, NoAdjacentRegions}
        /\ (last.err = NoAdjacentRegions)
              <=> ~major_adjacent_region(last.workspace, last.region,
                                         last.direction).some
        /\ last.err = NoAdjacentRegions =>
              (region = last.region /\ workspace = last.workspace)

\* A swap has succeeded and the next one, in a direction with no adjacent
\* region, has been refused.
C9_Witness ==
    /\ before.op = "swap_region" /\ before.err = Ok
    /\ last.op = "swap_region" /\ last.err = NoAdjacentRegions
    /\ Len(workspace.regions) > 1

\* ---- C10 ----------------------------------------------------------------------
\* The set of rectangles of the stored regions.
Rectangles(self) == { Geometry(self.regions[i]) : i \in 1..Len(self.regions) }

\* The exchange itself: after a successful swap_region the region has the
\* selected neighbour's former size and position and the neighbour, at its
\* index, the region's; float markers, workspace size, length and order of the
\* sequence and every other region are unchanged.
Exchanged ==
    (last.op = "swap_region" /\ last.err = Ok) =>
        LET j == last.index.index
        IN  /\ Geometry(region) = Geometry(Get(last.workspace, j))
            /\ Geometry(Get(workspace, j)) = Geometry(last.region)
            /\ region.float = last.region.float
            /\ Get(workspace, j).float = Get(last.workspace, j).float
            /\ workspace.size = last.workspace.size
            /\ Len(workspace.regions) = Len(last.workspace.regions)
            /\ \A k \in 0..(Len(workspace.regions) - 1) :
                  k # j => Get(workspace, k) = Get(last.workspace, k)

\* C10: a successful swap_region is that pairwise exchange, so the set of
\* rectangles in the tiling (the stored regions) is the same before and after.
C10_SwapExchange ==
    /\ Exchanged
    /\ (last.op = "swap_region" /\ last.err = Ok) =>
           Rectangles(workspace) = Rectangles(last.workspace)

\* ---- vocabulary of the resize claims --------------------------------------
\* The last call was resize_region with one of Top, Bottom, Left, Right.
SingleResize == last.op = "resize_region" /\ last.resize.kind \in ResizeSingle

\* The extent of a rectangle along the moved axis once the edge has moved: of
\* the region when its own edge moves by delta, and of a neighbour when its
\* opposing edge moves by -delta.
ExtentAfter(reg, kind, delta) ==
    CASE kind = "Top" -> reg.size.h - delta
      [] kind = "Bottom" -> reg.size.h + delta
      [] kind = "Left" -> reg.size.w - delta
      [] kind = "Right" -> reg.size.w + delta

MinimumExtent(kind) ==
    IF kind \in {"Top", "Bottom"} THEN MIN_REGION_SIZE.h ELSE MIN_REGION_SIZE.w

TooSmall(reg, kind, delta) == ExtentAfter(reg, kind, delta) < MinimumExtent(kind)

\* The region with its own edge moved by delta, the opposite edge fixed.
MovedOwn(reg, kind, delta) ==
    CASE kind = "Top" ->
             [reg EXCEPT !.pos.y = reg.pos.y + delta, !.size.h = reg.size.h - delta]
      [] kind = "Bottom" -> [reg EXCEPT !.size.h = reg.size.h + delta]
      [] kind = "Left" ->
             [reg EXCEPT !.pos.x = reg.pos.x + delta, !.size.w = reg.size.w - delta]
      [] kind = "Right" -> [reg EXCEPT !.size.w = reg.size.w + delta]

\* A neighbour with its opposing edge moved by -delta, its far edge fixed.
MovedNeighbour(sibling, kind, delta) ==
    CASE kind = "Top" -> [sibling EXCEPT !.size.h = sibling.size.h - delta]
      [] kind = "Bottom" ->
             [sibling EXCEPT !.pos.y = sibling.pos.y - delta,
                             !.size.h = sibling.size.h + delta]
      [] kind = "Left" -> [sibling EXCEPT !.size.w = sibling.size.w - delta]
      [] kind = "Right" ->
             [sibling EXCEPT !.pos.x = sibling.pos.x - delta,
                             !.size.w = sibling.size.w + delta]

\* The neighbours the last single-edge resize visits, in the order it visits
\* them.
Visited ==
    adjacent_regions(last.workspace,
                     MovedOwn(last.region, last.resize.kind, last.resize.a),
                     EdgeDirection(last.resize.kind))

\* The position in Visited of the first neighbour whose move would leave it
\* smaller than the minimum, Len(Visited) + 1 when there is none.
FirstFailure ==
    LET failing == { k \in 1..Len(Visited) :
                        TooSmall(Get(last.workspace, Visited[k]),
                                 last.resize.kind, last.resize.a) }
    IN  IF failing = {} THEN Len(Visited) + 1
        ELSE CHOOSE k \in failing : \A j \in failing : k <= j

\* ---- C11 ----------------------------------------------------------------------
\* C11: a failed resize_region is not rolled back.  When the region's own edge
\* move would leave it smaller than the minimum, the call returns InvalidRegion
\* and neither the region nor any stored region changes.  When the move of a
\* neighbour would leave that neighbour smaller than the minimum, the call
\* returns InvalidRegion at the first such neighbour in ascending index order:
\* the region's own edge and every neighbour before it stay moved, that
\* neighbour, every later one and every other stored region are unchanged.
C11_FailureNotRolledBack ==
    SingleResize =>
        LET kind == last.resize.kind
            delta == last.resize.a
        IN  IF TooSmall(last.region, kind, delta)
            THEN /\ last.err = InvalidRegion
                 /\ region = last.region
                 /\ workspace = last.workspace
            ELSE FirstFailure <= Len(Visited) =>
                 /\ last.err = InvalidRegion
                 /\ region = MovedOwn(last.region, kind, delta)
                 /\ workspace.size = last.workspace.size
                 /\ Len(workspace.regions) = Len(last.workspace.regions)
                 /\ \A index \in 0..(Len(last.workspace.regions) - 1) :
                        Get(workspace, index) =
                            IF \E k \in 1..(FirstFailure - 1) : Visited[k] = index
                            THEN MovedNeighbour(Get(last.workspace, index), kind, delta)
                            ELSE Get(last.workspace, index)

\* A resize failed at its second neighbour or later: the region's own edge and
\* an earlier neighbour have moved, and the call returned InvalidRegion.
C11_Witness ==
    /\ SingleResize
    /\ last.err = InvalidRegion
    /\ ~TooSmall(last.region, last.resize.kind, last.resize.a)
    /\ FirstFailure >= 2
    /\ FirstFailure <= Len(Visited)
    /\ region # last.region
    /\ workspace # last.workspace

\* ---- C12 ----------------------------------------------------------------------
\* The stored regions at the indices outside `touched` are the same, at the
\* same index, as before the last call.
SameExcept(touched) ==
    \A index \in 0..(Len(last.workspace.regions) - 1) :
        index \notin touched => Get(workspace, index) = Get(last.workspace, index)

\* C12: indices are stable handles.  create_region makes self.regions one
\* longer, returns the old length as the index of the new region and leaves
\* every region stored before at its index; resize_region and swap_region
\* never change the length or the order of self.regions; no operation changes
\* the size of the workspace.
C12_StableHandles ==
    /\ workspace.size = last.workspace.size
    /\ last.op = "create_region" =>
        /\ Len(workspace.regions) = Len(last.workspace.regions) + 1
        /\ last.index = Some(Len(last.workspace.regions))
        /\ SameExcept({})
    /\ last.op = "resize_region" =>
        /\ Len(workspace.regions) = Len(last.workspace.regions)
        /\ \A index \in 0..(Len(workspace.regions) - 1) :
               Get(workspace, index).float = Get(last.workspace, index).float
        /\ last.resize.kind \in ResizeSingle =>
               SameExcept({ Visited[k] : k \in 1..Len(Visited) })
    /\ last.op = "swap_region" =>
        /\ Len(workspace.regions) = Len(last.workspace.regions)
        /\ \A index \in 0..(Len(workspace.regions) - 1) :
               Get(workspace, index).float = Get(last.workspace, index).float
        /\ SameExcept(IF last.index.some THEN {last.index.index} ELSE {})

\* A region was created as the third one right after a resize or a swap that
\* changed a stored region.
C12_Witness ==
    /\ last.op = "create_region"
    /\ Len(last.workspace.regions) = 2
    /\ last.index = Some(2)
    /\ before.op \in {"resize_region", "swap_region"}
    /\ before.err = Ok
    /\ before.workspace # last.workspace

\* ---- C13 ----------------------------------------------------------------------
\* C13: a successful resize_region(region, Top(d)) sets region.top to top + d
\* with region.bottom fixed and sets the bottom edge of every region that
\* adjacent_regions(region, Up) returns in that call to its bottom - d, with
\* that neighbour's top fixed; Bottom(d), Left(d) and Right(d) move the
\* neighbours' top, right and left edge by -d in the same way; every stored
\* region outside that adjacency set is unchanged.
C13_SingleEdgeStep ==
    (SingleResize /\ last.err = Ok) =>
        LET kind == last.resize.kind
            delta == last.resize.a
        IN  /\ region = MovedOwn(last.region, kind, delta)
            /\ Len(workspace.regions) = Len(last.workspace.regions)
            /\ \A index \in 0..(Len(last.workspace.regions) - 1) :
                   Get(workspace, index) =
                       IF Among(index, Visited)
                       THEN MovedNeighbour(Get(last.workspace, index), kind, delta)
                       ELSE Get(last.workspace, index)

\* A resize succeeded that moved two neighbours or more and left another stored
\* region alone.
C13_Witness ==
    /\ SingleResize
    /\ last.err = Ok
    /\ Len(Visited) >= 2
    /\ Len(last.workspace.regions) > Len(Visited)
    /\ \A k \in 1..Len(Visited) :
           Get(workspace, Visited[k]) # Get(last.workspace, Visited[k])

\* ---- C14 ----------------------------------------------------------------------
\* The last call was resize_region with one of the four corner variants.
CornerResize == last.op = "resize_region" /\ last.resize.kind \in ResizeCompound

\* The two single-edge variants a corner variant is said to be made of.
ComponentsOf(kind) ==
    CASE kind = "TopLeft" -> << "Top", "Left" >>
      [] kind = "TopRight" -> << "Top", "Right" >>
      [] kind = "BottomLeft" -> << "Bottom", "Left" >>
      [] kind = "BottomRight" -> << "Bottom", "Right" >>

\* The outcome of resize_region with the first component alone, from the state
\* before the last call, and of the second component alone after it.
FirstAlone ==
    resize_region(last.workspace, last.region,
                  Resize(ComponentsOf(last.resize.kind)[1], last.resize.a, 0))

SecondAlone ==
    resize_region(FirstAlone.workspace, FirstAlone.region,
                  Resize(ComponentsOf(last.resize.kind)[2], last.resize.b, 0))

\* C14: a corner resize is the sequential composition of two single-edge
\* resizes.  resize_region(r, TopLeft(t, l)) returns the same result and leaves
\* the same state as resize_region(r, Top(t)) followed, only if that succeeded,
\* by resize_region(r, Left(l)); TopRight is Top then Right, BottomLeft is
\* Bottom then Left, BottomRight is Bottom then Right.  When the first fails
\* the second is not attempted; when the second fails the effects of the first
\* remain.
C14_CompoundIsSequential ==
    CornerResize =>
        IF FirstAlone.err # Ok
        THEN /\ last.err = FirstAlone.err
             /\ workspace = FirstAlone.workspace
             /\ region = FirstAlone.region
        ELSE /\ last.err = SecondAlone.err
             /\ workspace = SecondAlone.workspace
             /\ region = SecondAlone.region

\* A corner resize whose first component moved the region and a neighbour and
\* whose second component failed.
C14_Witness ==
    /\ CornerResize
    /\ FirstAlone.err = Ok
    /\ FirstAlone.workspace # last.workspace
    /\ SecondAlone.err = InvalidRegion
    /\ last.err = InvalidRegion
    /\ workspace # last.workspace
    /\ region # last.region

\* ---- C15 ----------------------------------------------------------------------
\* The closed intervals [a1, a2] and [b1, b2] have a point in common.
Intersect(a1, a2, b1, b2) == Max(a1, b1) <= Min(a2, b2)

\* The cross-axis closed intervals of the two regions intersect: [left, right]
\* for Up and Down, [top, bottom] for Left and Right.
CrossAxisIntersect(reg, sibling, direction) ==
    IF direction \in {"Up", "Down"}
    THEN Intersect(left(reg), right(reg), left(sibling), right(sibling))
    ELSE Intersect(top(reg), bottom(reg), top(sibling), bottom(sibling))

\* C15: adjacent_regions(region, direction) returns exactly those indices of
\* shared_edge_regions(region, direction) whose cross-axis closed interval
\* intersects the region's, endpoints included; a sibling whose span strictly
\* contains the region's span on both sides is among them.
C15_AdjacentIsIntersection ==
    \A direction \in Direction :
        \A index \in 0..(Len(workspace.regions) - 1) :
            Among(index, adjacent_regions(workspace, region, direction))
                <=> /\ Among(index, shared_edge_regions(workspace, region, direction))
                    /\ CrossAxisIntersect(region, Get(workspace, index), direction)

\* ---- C16 ----------------------------------------------------------------------
\* `found` is what major_adjacent_region may return for the region in the
\* direction, by C16: nothing exactly when no region is adjacent, otherwise
\* an adjacent index whose overlap length is at least that of every other.
LargestOverlap(self, reg, direction, found) ==
    LET adjacent == adjacent_regions(self, reg, direction)
    IN  /\ ~found.some <=> adjacent = << >>
        /\ found.some =>
            /\ Among(found.index, adjacent)
            /\ \A k \in 1..Len(adjacent) :
                   OverlapLength(reg, Get(self, found.index), direction)
                       >= OverlapLength(reg, Get(self, adjacent[k]), direction)

\* C16: major_adjacent_region(region, direction) returns nothing if and only
\* if adjacent_regions(region, direction) is empty; otherwise it returns an
\* index from adjacent_regions whose overlap length on the cross axis,
\* |max(starts) - min(ends)|, is at least that of every other adjacent region.
C16_MajorIsLargest ==
    \A direction \in Direction :
        LargestOverlap(workspace, region, direction,
                       major_adjacent_region(workspace, region, direction))

\* The region has adjacent regions of different overlap lengths in some
\* direction, and the one with the largest is not the last of them.
C16_Witness ==
    \E direction \in Direction :
        LET adjacent == adjacent_regions(workspace, region, direction)
            found == major_adjacent_region(workspace, region, direction)
        IN  /\ Len(adjacent) >= 2
            /\ found.some
            /\ found.index # adjacent[Len(adjacent)]
            /\ OverlapLength(region, Get(workspace, found.index), direction)
                   > OverlapLength(region, Get(workspace, adjacent[Len(adjacent)]),
                                   direction)

\* ---- C17 ----------------------------------------------------------------------
\* The adjacent indices whose overlap length equals that of `index`.
TiedWith(self, reg, direction, index) ==
    LET adjacent == adjacent_regions(self, reg, direction)
    IN  { adjacent[k] : k \in
            { j \in 1..Len(adjacent) :
                OverlapLength(reg, Get(self, adjacent[j]), direction)
                    = OverlapLength(reg, Get(self, index), direction) } }

\* C17: when several adjacent regions have the same maximal overlap length,
\* major_adjacent_region returns the one with the highest index, and the
\* partner of a successful swap_region is that index.
C17_TieBreakHighestIndex ==
    /\ \A direction \in Direction :
           LET found == major_adjacent_region(workspace, region, direction)
           IN  found.some =>
                   \A index \in TiedWith(workspace, region, direction, found.index) :
                       index <= found.index
    /\ (last.op = "swap_region" /\ last.err = Ok) =>
           /\ last.index.some
           /\ LargestOverlap(last.workspace, last.region, last.direction, last.index)
           /\ \A index \in TiedWith(last.workspace, last.region, last.direction,
                                    last.index.index) :
                  index <= last.index.index

\* A swap succeeded whose partner was tied for the largest overlap with a
\* region of lower index.
C17_Witness ==
    /\ last.op = "swap_region"
    /\ last.err = Ok
    /\ last.index.some
    /\ \E index \in TiedWith(last.workspace, last.region, last.direction,
                             last.index.index) :
           index < last.index.index

\* ---- C18 ----------------------------------------------------------------------
\* The last call was create_region; the caller's region is the sibling after
\* the call and last.index the index of the new region.
JustCreated == last.op = "create_region"

\* For every direction the new region is not returned by shared_edge_regions
\* and adjacent_regions of the sibling.
NewApartFromSibling ==
    \A direction \in Direction :
        /\ ~Among(last.index.index, shared_edge_regions(workspace, region, direction))
        /\ ~Among(last.index.index, adjacent_regions(workspace, region, direction))

\* For every direction the sibling does not share the edge of the new region.
SiblingApartFromNew ==
    \A direction \in Direction :
        ~SharesEdge(Get(workspace, last.index.index), region, direction)

\* C18: immediately after create_region(sibling, direction) the sibling and
\* the new region are at distance 0, so for every direction the new region's
\* index is absent from shared_edge_regions and adjacent_regions of the sibling
\* and the sibling does not share an edge of the new region,
\* major_adjacent_region of the sibling is not the new region, and
\* swap_region(sibling, direction) returns NoAdjacentRegions.
C18_SplitProductsApart ==
    JustCreated =>
        /\ NewApartFromSibling
        /\ SiblingApartFromNew
        /\ \A direction \in Direction :
               major_adjacent_region(workspace, region, direction) # last.index
        /\ swap_region(workspace, region, last.direction).err = NoAdjacentRegions

OppositeOf(direction) ==
    CASE direction = "Up" -> "Down"
      [] direction = "Down" -> "Up"
      [] direction = "Left" -> "Right"
      [] direction = "Right" -> "Left"

\* C18, amended: immediately after create_region(sibling, direction) the
\* sibling's edge in that direction and the facing edge of the new region are
\* at distance 0, so the new region's index is absent from
\* shared_edge_regions(sibling, direction) and adjacent_regions(sibling,
\* direction), the sibling does not share the new region's edge in the
\* opposite direction, and neither major_adjacent_region(sibling, direction)
\* nor swap_region(sibling, direction) selects the new region.  When the
\* sibling was at least 2 wide and 2 high before the split, the same holds
\* for every direction.
C18_SplitProductsApartInSplitDirection ==
    JustCreated =>
        /\ ~Among(last.index.index,
                  shared_edge_regions(workspace, region, last.direction))
        /\ ~Among(last.index.index,
                  adjacent_regions(workspace, region, last.direction))
        /\ ~SharesEdge(Get(workspace, last.index.index), region,
                       OppositeOf(last.direction))
        /\ major_adjacent_region(workspace, region, last.direction) # last.index
        /\ swap_region(workspace, region, last.direction).index # last.index
        /\ (last.region.size.w >= 2 /\ last.region.size.h >= 2) =>
               /\ NewApartFromSibling
               /\ SiblingApartFromNew
               /\ \A direction \in Direction :
                      major_adjacent_region(workspace, region, direction)
                          # last.index

\* A region at least 2 wide and 2 high was split, and swap_region of the
\* sibling in the split direction finds another stored region to exchange with.
C18_Witness ==
    /\ JustCreated
    /\ last.region.size.w >= 2
    /\ last.region.size.h >= 2
    /\ swap_region(workspace, region, last.direction).err = Ok
    /\ swap_region(workspace, region, last.direction).index # last.index

\* ---- C19 ----------------------------------------------------------------------
\* The regions adjacent to the moved edge where it was before the last
\* single-edge resize.
AdjacentBefore ==
    adjacent_regions(last.workspace, last.region, EdgeDirection(last.resize.kind))

\* The stored region at the index is as it was before the last call.
Untouched(index) == Get(workspace, index) = Get(last.workspace, index)

\* C19: in a single-edge resize the neighbours are looked up by
\* adjacent_regions after the region's own edge has moved: the stored regions
\* whose opposing edge is adjusted are adjacent to the new position of the
\* edge, and a region that was adjacent to the edge only before the move is
\* left untouched whenever the delta is not zero.
C19_NeighboursAfterOwnMove ==
    (SingleResize /\ ~TooSmall(last.region, last.resize.kind, last.resize.a)) =>
        /\ region = MovedOwn(last.region, last.resize.kind, last.resize.a)
        /\ \A index \in 0..(Len(last.workspace.regions) - 1) :
               /\ ~Untouched(index) => Among(index, Visited)
               /\ (last.err = Ok /\ Among(index, Visited)) =>
                      Get(workspace, index) =
                          MovedNeighbour(Get(last.workspace, index),
                                         last.resize.kind, last.resize.a)
               /\ (/\ last.resize.a # 0
                   /\ Among(index, AdjacentBefore)
                   /\ ~Among(index, Visited)) => Untouched(index)

\* A resize by a non-zero delta succeeded although a stored region was
\* adjacent to the edge before the move; that region is as it was.
C19_Witness ==
    /\ SingleResize
    /\ last.err = Ok
    /\ last.resize.a # 0
    /\ region # last.region
    /\ \E index \in 0..(Len(last.workspace.regions) - 1) :
           /\ Among(index, AdjacentBefore)
           /\ ~Among(index, Visited)
           /\ Untouched(index)


====
